---- MODULE Spec2Model ----
(***************************************************************************)
(* embr-action: trigger a remote build over HTTP and poll it until it     *)
(* reaches a terminal state.  The repository holds five variants of the   *)
(* action's entry script:                                                  *)
(*   "index"  src/src/index.js              createBuild + pollBuildStatus  *)
(*   "p000a"  src/unnamed/part_000:1-265    createBuild + pollBuildStatus  *)
(*   "p000b"  src/unnamed/part_000:267-647  build/upload mode + poller     *)
(*   "p001"   src/unnamed/part_001          createBuild only               *)
(*   "p002"   src/unnamed/part_002          callEndpoint + pollEndpoint    *)
(* One behaviour of the model is one invocation of run() of one variant.  *)
(* An action is one segment of run() between two awaits: the code runs on *)
(* a single-threaded event loop, so a segment is atomic.                  *)
(***************************************************************************)
EXTENDS Integers, Sequences, FiniteSets, TLC

\* Largest value of the max-attempts input explored (index.js, part_002).
MaxAttempts == 3

\* const maxAttempts = 60 of pollBuildStatus in part_000.
p000_maxAttempts == 60

\* Largest value of the polling-interval input explored (index.js, part_002).
MaxInterval == 1

\* const pollingInterval = 10 of pollBuildStatus in part_000, in seconds.
p000_pollingInterval == 10

\* parseInt(core.getInput('timeout') || '30000', 10) with the input absent.
DefaultTimeout == 30000

\* parseInt(core.getInput('max-attempts') || '30', 10) with the input absent.
DefaultMaxAttempts == 30

\* parseInt(core.getInput('polling-interval') || '10', 10) with the input absent.
DefaultPollingInterval == 10

\* The timeout of a request made without a timeout option.
Unset == -1

VARIABLES
    variant,       \* which entry script runs
    mode,          \* input 'mode' (part_000:473), "" when it is absent
    zipExists,     \* fs.existsSync(absolutePath) (part_000:332)
    inputsGiven,   \* the inputs read with { required: true } are present
    inputs,        \* the inputs max-attempts, polling-interval and timeout
    pollingInterval, \* the poller's pollingInterval, in seconds
    timeout,       \* the timeout option of the requests, in milliseconds
    maxAttempts,   \* the poller's maxAttempts
    pc,            \* where run() is suspended
    attempts,      \* let attempts (while-loop pollers)
    attempt,       \* let attempt (for-loop pollers)
    lastResponse,  \* let lastResponse (while-loop pollers)
    pollResult,    \* the value the poller returned
    buildId,       \* buildId of run()
    posts,         \* trigger POST requests issued
    gets,          \* poll GET requests issued
    sleeps,        \* calls of sleep()
    sleepMs,       \* sum of the arguments of the calls of sleep()
    inflight,      \* HTTP requests issued and not yet settled, oldest first
    out,           \* calls of core.setOutput / core.setFailed, in order
    lastKind,      \* history: how the most recent poll GET settled
    last2xx,       \* history: body of the most recent 2xx poll response
    firstTerminal, \* history: first 2xx poll response carrying a terminal token
    allFailed,     \* history: every poll GET so far failed
    allRunning,    \* history: every poll GET so far failed or was non-terminal
    scenario,      \* history: the poll GETs so far were those of ScenarioStep
    trigger        \* history: how the trigger POST settled

cfg == <<variant, mode, zipExists, inputsGiven, inputs, maxAttempts, pollingInterval,
        timeout>>
hist == <<lastKind, last2xx, firstTerminal, allFailed, allRunning, scenario>>
vars == <<variant, mode, zipExists, inputsGiven, inputs, maxAttempts, pollingInterval,
          timeout, pc, attempts, attempt, lastResponse, pollResult, buildId,
          posts, gets, sleeps, sleepMs, inflight, out, lastKind, last2xx,
          firstTerminal, allFailed, allRunning, scenario, trigger>>

\* The number of HTTP requests outstanding.
outstanding == Len(inflight)

\* The values of the input 'mode': absent, 'upload', and another value.
ModeInputs == {"", "upload", "deploy"}

\* const mode = core.getInput('mode') || 'build'
run_mode == IF mode = "" THEN "build" ELSE mode

Variants == {"index", "p000a", "p000b", "p001", "p002"}
WhileVariants == {"index", "p002"}
ForVariants == {"p000a", "p000b"}

----------------------------------------------------------------------------
(* Response bodies.  A JSON body is a record; a field that is absent holds *)
(* Undefined; complete is TRUE exactly when the body has complete === true.*)

Undefined == "undefined"

NoBuild ==
    [present |-> FALSE, id |-> Undefined, status |-> Undefined,
     buildNumber |-> Undefined, statusMessage |-> Undefined]

\* The field deployment of a body: absent, or an object with or without url.
NoDeployment == [present |-> FALSE, url |-> Undefined]

EmptyObject ==
    [isNull |-> FALSE, status |-> Undefined, complete |-> FALSE,
     message |-> Undefined, id |-> Undefined, buildId |-> Undefined,
     build_id |-> Undefined, build |-> NoBuild, deployment |-> NoDeployment]

\* The body null (an empty or unparsable 2xx body), also JavaScript's null.
Null == [EmptyObject EXCEPT !.isNull = TRUE]

StatusStrings ==
    {"Succeeded", "succeeded", "success", "completed",
     "Failed", "failed", "error", "in_progress"}

StatusValues == StatusStrings \cup {Undefined}

Build(i, s) ==
    [present |-> TRUE, id |-> i, status |-> s, buildNumber |-> Undefined,
     statusMessage |-> Undefined]

\* { build: { id: 'b2', status: 'Failed', statusMessage: 'compile error' } }
FailedAtOnce ==
    [EmptyObject EXCEPT
        !.build = [Build("b2", "Failed") EXCEPT !.statusMessage = "compile error"]]

\* { status: 'Succeeded', build: { id: 'b1', buildNumber: 7 } }
SucceededTopLevel ==
    [EmptyObject EXCEPT !.status = "Succeeded",
                        !.build = [Build("b1", Undefined) EXCEPT !.buildNumber = "7"]]

\* { build: { id: 'b1', status: 'Succeeded', buildNumber: 7 } }
SucceededBuild ==
    [EmptyObject EXCEPT !.build = [Build("b1", "Succeeded") EXCEPT !.buildNumber = "7"]]

\* SucceededBuild with deployment: { url: 'https://site' }
SucceededDeployed ==
    [SucceededBuild EXCEPT !.deployment = [present |-> TRUE, url |-> "https://site"]]

\* SucceededBuild with deployment: {}
SucceededNoUrl ==
    [SucceededBuild EXCEPT !.deployment = [present |-> TRUE, url |-> Undefined]]

\* Bodies a poll GET may return.
PollBodies ==
    {Null}
    \cup {[EmptyObject EXCEPT !.status = s, !.complete = c] :
              s \in StatusValues, c \in BOOLEAN}
    \cup {[EmptyObject EXCEPT !.complete = c, !.build = Build("b1", s)] :
              s \in StatusValues, c \in BOOLEAN}
    \cup {[EmptyObject EXCEPT !.status = "completed", !.build = Build("b1", "Failed")],
          [EmptyObject EXCEPT !.status = "failed", !.build = Build("b1", "Succeeded")],
          [EmptyObject EXCEPT !.status = "in_progress", !.build = Build("b1", "in_progress")],
          SucceededTopLevel, SucceededBuild, SucceededDeployed, SucceededNoUrl}

\* Bodies the trigger POST may return.
TriggerBodies ==
    {Null}
    \cup {[EmptyObject EXCEPT !.status = s, !.complete = c, !.id = i,
                              !.buildId = j, !.build_id = k, !.build = b] :
              s \in StatusValues, c \in BOOLEAN,
              i \in {Undefined, "b1"}, j \in {Undefined, "b2"},
              k \in {Undefined, "b3"},
              b \in {NoBuild, Build(Undefined, "in_progress"),
                     Build("b1", "in_progress"), Build("b1", "Failed")}}
    \cup {FailedAtOnce}

\* How an axios request settles: 2xx resolves with the body, a non-2xx
\* response or a network/timeout error rejects.
Outcomes(bodies) ==
    {[kind |-> "ok", body |-> b] : b \in bodies}
    \cup {[kind |-> "http", body |-> Null], [kind |-> "net", body |-> Null]}

\* JSON.stringify(v): the text of v, kept as the value it serialises.
JSON_stringify(v) == <<"json", v>>

NoResult ==
    [returned |-> FALSE, status |-> Undefined, success |-> FALSE,
     timeout |-> FALSE, response |-> Null, data |-> Null]

NoOutputs ==
    [status |-> <<>>, response |-> <<>>, failed |-> <<>>, buildId |-> <<>>,
     buildNumber |-> <<>>, logPath |-> <<>>, deploymentUrl |-> <<>>]

\* const UI_BASE_URL of part_000.
UI_BASE_URL == "https://embr-poc-ui.azurewebsites.net"

\* The value of the input project-id.
projectId == "project-1"

\* const buildLogsUrl = (buildId) => `${UI_BASE_URL}/builds/${projectId}/${buildId}`
buildLogsUrl(id) == <<UI_BASE_URL, "/builds/", projectId, "/", id>>

----------------------------------------------------------------------------
(* Status checks, as the code writes them.                                 *)

index_isCompleted(d) ==
    \/ d.status = "completed"
    \/ d.status = "success"
    \/ d.status = "succeeded"
    \/ d.complete = TRUE

\* index_isFailed comparing with a token the API never sends.
index_isFailed_noTokens(d) == FALSE

index_isFailed(d) ==
    \/ d.status = "failed"
    \/ d.status = "error"

p002_isCompleted(d) ==
    \/ d.status = "completed"
    \/ d.status = "success"
    \/ d.complete = TRUE

p002_isFailed(d) ==
    \/ d.status = "failed"
    \/ d.status = "error"

p000_isSucceeded(status) ==
    status = "Succeeded" \/ status = "completed" \/ status = "success"

p000_isFailed(status) ==
    status = "Failed" \/ status = "failed" \/ status = "error"

\* const buildId = buildResponse.id || buildResponse.buildId || buildResponse.build_id
index_buildId(r) ==
    IF r.id # Undefined THEN r.id
    ELSE IF r.buildId # Undefined THEN r.buildId
    ELSE r.build_id

\* const buildId = buildResponse.build?.id
p000_buildId(r) == IF r.build.present THEN r.build.id ELSE Undefined

----------------------------------------------------------------------------
(* github.context.ref and the branch value of the trigger request.  A     *)
(* string is kept as a prefix and the text after it, so that startsWith   *)
(* and replace act on it as they do on the string.                        *)

Text(p, n) == [null |-> FALSE, prefix |-> p, name |-> n]

\* JavaScript's null, where a string may stand.
JsNull == [null |-> TRUE, prefix |-> "", name |-> ""]

\* !t of a string or null.
Falsy(t) == t.null \/ (t.prefix = "" /\ t.name = "")

\* a || b
Or(a, b) == IF Falsy(a) THEN b ELSE a

\* Values of github.context.ref: branches, a tag, a pull request ref, and
\* refs of no known kind.
Refs ==
    {Text("refs/heads/", "main"), Text("refs/heads/", "unknown"),
     Text("refs/tags/", "v1"), Text("refs/pull/", "7/merge"),
     Text("refs/remotes/", "origin/main"), Text("", "unknown")}

\* github.context.sha
context_sha == Text("", "c0ffee")

\* t.startsWith(p)
startsWith(t, p) == t.prefix = p

\* t.replace(p, '') of a string that starts with p.
replace(t, p) == IF t.prefix = p THEN Text("", t.name) ELSE t

getRepositoryContext(ref) ==
    LET refType ==
            IF startsWith(ref, "refs/heads/") THEN "branch"
            ELSE IF startsWith(ref, "refs/tags/") THEN "tag"
            ELSE IF startsWith(ref, "refs/pull/") THEN "pull_request"
            ELSE "unknown"
        refName ==
            IF startsWith(ref, "refs/heads/") THEN replace(ref, "refs/heads/")
            ELSE IF startsWith(ref, "refs/tags/") THEN replace(ref, "refs/tags/")
            ELSE ref
    IN [ref |-> refName,
        refType |-> refType,
        branch |-> IF refType = "branch" THEN refName ELSE JsNull,
        tag |-> IF refType = "tag" THEN refName ELSE JsNull,
        commit |-> context_sha]

\* let branchName of run() in index.js, and whether core.warning was called.
index_branchName(repoContext) ==
    LET branchName == Or(repoContext.branch, repoContext.ref) IN
    IF Falsy(branchName) \/ branchName = Text("", "unknown")
    THEN [value |-> repoContext.commit, warned |-> TRUE]
    ELSE [value |-> branchName, warned |-> FALSE]

\* let branchName of run() and runBuildMode() in part_000 and of run() in
\* part_001, and whether core.warning was called.
p000_branchName(repoContext) ==
    LET branchName == Or(repoContext.branch, repoContext.ref) IN
    IF \/ Falsy(branchName)
       \/ branchName = Text("", "unknown")
       \/ repoContext.refType = "unknown"
    THEN [value |-> repoContext.commit, warned |-> TRUE]
    ELSE [value |-> branchName, warned |-> FALSE]

----------------------------------------------------------------------------
(* HTTP requests.  A request is kept with the github.context.ref it was   *)
(* built from and with whether run() warned while it chose the branch.    *)

NoBody == [kind |-> "none", branch |-> JsNull, commitSha |-> JsNull]

Request(m, t, b, ref, w) ==
    [method |-> m, timeout |-> t, body |-> b, ref |-> ref, warned |-> w]

\* axios.post(endpoint, { branch, commitSha }, ...) of createBuild.
createBuild(branchName, commitSha, t, ref) ==
    Request("POST", t,
            [kind |-> "build", branch |-> branchName.value, commitSha |-> commitSha],
            ref, branchName.warned)

\* axios.post(endpoint, { ...repoContext, timestamp }, { timeout }) of part_002.
callEndpoint(repoContext, t, ref) ==
    Request("POST", t,
            [kind |-> "context", branch |-> repoContext.branch, commitSha |-> JsNull],
            ref, FALSE)

\* axios.post(endpoint, fileBuffer, ...) of uploadBuild; runUploadMode does
\* not read github.context.
uploadBuild == Request("POST", Unset, [NoBody EXCEPT !.kind = "zip"], JsNull, FALSE)

\* triggerRequest choosing the upload for every mode other than 'build'.
triggerRequest_unlessBuild(ref) ==
    LET repoContext == getRepositoryContext(ref) IN
    CASE variant = "index" ->
             createBuild(index_branchName(repoContext), repoContext.commit, timeout, ref)
      [] variant = "p002" -> callEndpoint(repoContext, timeout, ref)
      [] variant = "p000b" /\ run_mode # "build" -> uploadBuild
      [] OTHER ->
             createBuild(p000_branchName(repoContext), repoContext.commit, Unset, ref)

\* The trigger request of the variant when github.context.ref is ref:
\* if (mode === 'upload') runUploadMode else runBuildMode in part_000.
triggerRequest(ref) ==
    LET repoContext == getRepositoryContext(ref) IN
    CASE variant = "index" ->
             createBuild(index_branchName(repoContext), repoContext.commit, timeout, ref)
      [] variant = "p002" -> callEndpoint(repoContext, timeout, ref)
      [] variant = "p000b" /\ run_mode = "upload" -> uploadBuild
      [] OTHER ->
             createBuild(p000_branchName(repoContext), repoContext.commit, Unset, ref)

\* axios.get(endpoint, ...) of the pollers; part_000 passes no timeout.
pollRequest ==
    Request("GET", IF variant \in WhileVariants THEN timeout ELSE Unset,
            NoBody, JsNull, FALSE)

\* The requests outstanding once the request this segment of run() awaited
\* has settled.
Settled == IF pc \in {"awaitTrigger", "awaitPoll"} THEN Tail(inflight) ELSE inflight

----------------------------------------------------------------------------
(* The inputs max-attempts, polling-interval and timeout.                  *)

Given(n) == [given |-> TRUE, value |-> n]

\* core.getInput(name) of an input the workflow does not set: ''.
Absent == [given |-> FALSE, value |-> 0]

\* parseInt(core.getInput(name) || 'd', 10)
parseInt_or(input, d) == IF input.given THEN input.value ELSE d

\* The inputs explored where they are read: all three absent, or all three
\* given with small values.
InputSets ==
    {[maxAttempts |-> Absent, pollingInterval |-> Absent, timeout |-> Absent]}
    \cup {[maxAttempts |-> Given(m), pollingInterval |-> Given(i), timeout |-> Given(t)] :
              m \in -1 .. MaxAttempts, i \in 0 .. MaxInterval, t \in {0, DefaultTimeout}}

\* The inputs of a run of part_000 or part_001, which do not read them.
IgnoredInputs ==
    [maxAttempts |-> Given(MaxAttempts), pollingInterval |-> Given(MaxInterval),
     timeout |-> Given(DefaultTimeout)]

----------------------------------------------------------------------------
Init ==
    /\ variant \in Variants
    /\ mode \in (IF variant = "p000b" THEN ModeInputs ELSE {""})
    /\ zipExists \in (IF run_mode = "upload" THEN BOOLEAN ELSE {TRUE})
    /\ inputsGiven \in BOOLEAN
    /\ inputs \in (IF variant \in WhileVariants THEN InputSets ELSE {IgnoredInputs})
    /\ maxAttempts =
          (IF variant \in WhileVariants
           THEN parseInt_or(inputs.maxAttempts, DefaultMaxAttempts)
           ELSE IF variant \in ForVariants THEN p000_maxAttempts
           ELSE 0)
    /\ pollingInterval =
          (IF variant \in WhileVariants
           THEN parseInt_or(inputs.pollingInterval, DefaultPollingInterval)
           ELSE IF variant \in ForVariants THEN p000_pollingInterval
           ELSE 0)
    /\ timeout =
          (IF variant \in WhileVariants
           THEN parseInt_or(inputs.timeout, DefaultTimeout)
           ELSE Unset)
    /\ pc = "start"
    /\ attempts = 0
    /\ attempt = 0
    /\ lastResponse = Null
    /\ pollResult = NoResult
    /\ buildId = Undefined
    /\ posts = 0
    /\ gets = 0
    /\ sleeps = 0
    /\ sleepMs = 0
    /\ inflight = <<>>
    /\ out = NoOutputs
    /\ lastKind = "none"
    /\ last2xx = [seen |-> FALSE, body |-> Null]
    /\ firstTerminal = [at |-> 0, body |-> Null]
    /\ allFailed = TRUE
    /\ allRunning = TRUE
    /\ scenario = 0
    /\ trigger = [kind |-> "none", isNull |-> FALSE, topId |-> FALSE,
                  buildDotId |-> FALSE, failedAtOnce |-> FALSE,
                  success |-> FALSE, failure |-> FALSE]

----------------------------------------------------------------------------
(* History variables: what the poll GETs did so far.  They are written by  *)
(* the action that settles a GET and read by no action.                    *)

\* The status string the variant's poller compares against its tokens.
StatusRead(b) ==
    IF b.isNull THEN Undefined
    ELSE IF variant \in ForVariants
         THEN (IF b.build.present THEN b.build.status ELSE Undefined)
         ELSE b.status

\* The tokens the variant's poller recognises as success and as failure.
SuccessTokens ==
    CASE variant = "index" -> {"completed", "success", "succeeded"}
      [] variant = "p002" -> {"completed", "success"}
      [] variant \in ForVariants -> {"Succeeded", "completed", "success"}
      [] OTHER -> {}

FailureTokens ==
    CASE variant \in WhileVariants -> {"failed", "error"}
      [] variant \in ForVariants -> {"Failed", "failed", "error"}
      [] OTHER -> {}

\* The settled GET carries a terminal status for the variant's poller: one
\* of its tokens, or complete === true where the poller reads that flag.
Terminal(o) ==
    /\ o.kind = "ok"
    /\ \/ StatusRead(o.body) \in SuccessTokens \cup FailureTokens
       \/ variant \in WhileVariants /\ ~o.body.isNull /\ o.body.complete

\* Attempt k of the three-attempt scenario: a network error, then a 2xx
\* { status: 'in_progress' }, then a 2xx SucceededTopLevel.
ScenarioStep(k, o) ==
    CASE k = 1 -> o.kind = "net"
      [] k = 2 -> o.kind = "ok" /\ o.body = [EmptyObject EXCEPT !.status = "in_progress"]
      [] k = 3 -> o.kind = "ok" /\ o.body = SucceededTopLevel
      [] OTHER -> FALSE

\* The poll GET number gets has settled as o.
Observe(o) ==
    /\ lastKind' = o.kind
    /\ last2xx' = IF o.kind = "ok" THEN [seen |-> TRUE, body |-> o.body] ELSE last2xx
    /\ firstTerminal' =
          IF /\ firstTerminal.at = 0
             /\ o.kind = "ok"
             /\ StatusRead(o.body) \in SuccessTokens \cup FailureTokens
          THEN [at |-> gets, body |-> o.body]
          ELSE firstTerminal
    /\ allFailed' = (allFailed /\ o.kind # "ok")
    /\ allRunning' = (allRunning /\ ~Terminal(o))
    /\ scenario' = IF scenario = gets - 1 /\ ScenarioStep(gets, o) THEN gets ELSE -1
    /\ UNCHANGED trigger

\* The trigger POST has settled as o: whether its body is null, has one of
\* the fields id, buildId, build_id, has the field build.id, is FailedAtOnce,
\* and, in the variants that read the status of the trigger body, whether
\* that status is a success token or complete === true, or a failure token.
ObserveTrigger(o) ==
    trigger' = [kind |-> o.kind,
                isNull |-> (o.kind = "ok" /\ o.body.isNull),
                topId |-> (o.kind = "ok" /\ {o.body.id, o.body.buildId, o.body.build_id}
                                               # {Undefined}),
                buildDotId |-> (o.kind = "ok" /\ o.body.build.present
                                /\ o.body.build.id # Undefined),
                failedAtOnce |-> (o.kind = "ok" /\ o.body = FailedAtOnce),
                success |-> (/\ variant \in WhileVariants
                             /\ o.kind = "ok" /\ ~o.body.isNull
                             /\ (o.body.status \in SuccessTokens \/ o.body.complete)),
                failure |-> (/\ variant \in WhileVariants
                             /\ o.kind = "ok" /\ ~o.body.isNull
                             /\ o.body.status \in FailureTokens)]

----------------------------------------------------------------------------
(* The while-loop poller: pollBuildStatus of index.js and pollEndpoint of  *)
(* part_002, which differ only in the tokens of the completed check.       *)

isCompleted(d) ==
    IF variant = "index" THEN index_isCompleted(d) ELSE p002_isCompleted(d)

isFailed(d) ==
    IF variant = "index" THEN index_isFailed(d) ELSE p002_isFailed(d)

\* let lastResponse = { status: 'unknown', message: 'No response received' }
Placeholder ==
    [EmptyObject EXCEPT !.status = "unknown", !.message = "No response received"]

\* run() after the poller returned res: the outputs and the final status.
run_setOutputs(res) ==
    [out EXCEPT
        !.status = Append(@, res.status),
        !.response = Append(@, JSON_stringify(res.response)),
        !.failed = IF res.status = "failed"
                   THEN Append(@, "execution failed")
                   ELSE IF res.status = "timeout"
                        THEN Append(@, "execution timed out")
                        ELSE @]

\* return { status, response } of the poller, and run() up to its end.
pollBuildStatus_return(res) ==
    /\ pollResult' = [NoResult EXCEPT !.returned = TRUE, !.status = res.status,
                                      !.response = res.response]
    /\ out' = run_setOutputs(res)
    /\ pc' = "done"

\* pollBuildStatus_loop with the loop test off by one.
pollBuildStatus_loop_offByOne(n, last, sl) ==
    /\ attempts' = n
    /\ lastResponse' = last
    /\ sleeps' = sl
    /\ sleepMs' = sleepMs
    /\ IF n + 1 < maxAttempts
       THEN /\ gets' = gets + 1
            /\ inflight' = Append(Settled, pollRequest)
            /\ pc' = "awaitPoll"
            /\ UNCHANGED <<pollResult, out>>
       ELSE /\ gets' = gets
            /\ inflight' = Settled
            /\ pollBuildStatus_return([status |-> "timeout", response |-> last])

\* The head of while (attempts < maxAttempts) with attempts = n,
\* lastResponse = last and sl sleeps so far: the next GET, or the timeout.
pollBuildStatus_loop(n, last, sl) ==
    /\ attempts' = n
    /\ lastResponse' = last
    /\ sleeps' = sl
    /\ sleepMs' = sleepMs
    /\ IF n < maxAttempts
       THEN /\ gets' = gets + 1
            /\ inflight' = Append(Settled, pollRequest)
            /\ pc' = "awaitPoll"
            /\ UNCHANGED <<pollResult, out>>
       ELSE /\ gets' = gets
            /\ inflight' = Settled
            /\ pollBuildStatus_return([status |-> "timeout", response |-> last])

\* The try block after the GET resolved with body d (d is an object).
pollBuildStatus_try(d) ==
    IF isCompleted(d)
    THEN /\ attempts' = attempts
         /\ lastResponse' = d
         /\ UNCHANGED <<gets, sleeps, sleepMs>>
         /\ inflight' = Settled
         /\ pollBuildStatus_return([status |-> "completed", response |-> d])
    ELSE IF isFailed(d)
    THEN /\ attempts' = attempts
         /\ lastResponse' = d
         /\ UNCHANGED <<gets, sleeps, sleepMs>>
         /\ inflight' = Settled
         /\ pollBuildStatus_return([status |-> "failed", response |-> d])
    ELSE IF attempts + 1 < maxAttempts
    THEN /\ attempts' = attempts + 1
         /\ lastResponse' = d
         /\ sleeps' = sleeps + 1
         /\ sleepMs' = sleepMs + pollingInterval * 1000
         /\ inflight' = Settled
         /\ pc' = "sleepTry"
         /\ UNCHANGED <<gets, pollResult, out>>
    ELSE pollBuildStatus_loop(attempts + 1, d, sleeps)

\* pollBuildStatus_catch reporting the failed request as a failed build.
pollBuildStatus_catch_fails(last) ==
    /\ attempts' = attempts
    /\ lastResponse' = last
    /\ UNCHANGED <<gets, sleeps, sleepMs>>
    /\ inflight' = Settled
    /\ pollBuildStatus_return([status |-> "failed", response |-> last])

\* pollBuildStatus_catch that forgets the payload received so far.
pollBuildStatus_catch_resets(last) ==
    IF attempts + 1 < maxAttempts
    THEN /\ attempts' = attempts
         /\ lastResponse' = Placeholder
         /\ sleeps' = sleeps + 1
         /\ sleepMs' = sleepMs + pollingInterval * 1000
         /\ inflight' = Settled
         /\ pc' = "sleepCatch"
         /\ UNCHANGED <<gets, pollResult, out>>
    ELSE pollBuildStatus_loop(attempts + 1, Placeholder, sleeps)

\* The catch block; last is lastResponse when the exception was thrown.
pollBuildStatus_catch(last) ==
    IF attempts + 1 < maxAttempts
    THEN /\ attempts' = attempts
         /\ lastResponse' = last
         /\ sleeps' = sleeps + 1
         /\ sleepMs' = sleepMs + pollingInterval * 1000
         /\ inflight' = Settled
         /\ pc' = "sleepCatch"
         /\ UNCHANGED <<gets, pollResult, out>>
    ELSE pollBuildStatus_loop(attempts + 1, last, sleeps)

\* A poll GET settles as o.  A null body is assigned to lastResponse and
\* then response.data.status throws a TypeError inside the try block.
pollBuildStatus_settled(o) ==
    /\ pc = "awaitPoll"
    /\ variant \in WhileVariants
    /\ Observe(o)
    /\ UNCHANGED <<cfg, attempt, buildId, posts>>
    /\ IF o.kind = "ok" /\ ~o.body.isNull
       THEN pollBuildStatus_try(o.body)
       ELSE pollBuildStatus_catch(IF o.kind = "ok" THEN o.body ELSE lastResponse)

\* await sleep(...) resolves: attempts++ after the catch block's sleep, then
\* the loop head.
pollBuildStatus_slept ==
    /\ pc \in {"sleepTry", "sleepCatch"}
    /\ variant \in WhileVariants
    /\ UNCHANGED <<cfg, hist, trigger, attempt, buildId, posts>>
    /\ pollBuildStatus_loop(IF pc = "sleepCatch" THEN attempts + 1 ELSE attempts,
                            lastResponse, sleeps)

----------------------------------------------------------------------------
(* The for-loop poller: pollBuildStatus of part_000 (its two copies, lines *)
(* 91-149 and 407-465, differ in one log line only).                       *)

\* handleBuildResult whose timeout branch falls through to the failed branch.
handleBuildResult_fallthrough(result) ==
    IF result.success /\ ~result.data.isNull
    THEN [out EXCEPT !.status = Append(@, "succeeded"),
                     !.buildId = Append(@, buildId),
                     !.buildNumber = Append(@, result.data.build.buildNumber),
                     !.logPath = Append(@, buildLogsUrl(buildId)),
                     !.deploymentUrl =
                         IF /\ result.data.deployment.present
                            /\ result.data.deployment.url # Undefined
                         THEN Append(@, result.data.deployment.url)
                         ELSE @,
                     !.response = Append(@, JSON_stringify(result.data))]
    ELSE [out EXCEPT !.status = IF result.timeout
                                THEN Append(Append(@, "timeout"), "failed")
                                ELSE Append(@, "failed"),
                     !.buildId = Append(@, buildId),
                     !.response = Append(@, JSON_stringify(result.data)),
                     !.failed = Append(@, "Build failed")]

\* handleBuildResult setting deployment-url without testing deployment?.url.
handleBuildResult_alwaysUrl(result) ==
    IF result.success /\ ~result.data.isNull
    THEN [out EXCEPT !.status = Append(@, "succeeded"),
                     !.buildId = Append(@, buildId),
                     !.buildNumber = Append(@, result.data.build.buildNumber),
                     !.logPath = Append(@, buildLogsUrl(buildId)),
                     !.deploymentUrl = Append(@, result.data.deployment.url),
                     !.response = Append(@, JSON_stringify(result.data))]
    ELSE IF result.timeout
    THEN [out EXCEPT !.status = Append(@, "timeout"),
                     !.failed = Append(@, "Build timed out")]
    ELSE [out EXCEPT !.status = Append(@, "failed"),
                     !.buildId = Append(@, buildId),
                     !.response = Append(@, JSON_stringify(result.data)),
                     !.failed = Append(@, "Build failed")]

\* handleBuildResult(result, buildId, buildLogsUrl) of part_000:604-643; the
\* first copy of run() holds the same statements inline (part_000:218-255).
handleBuildResult(result) ==
    IF result.success /\ ~result.data.isNull
    THEN [out EXCEPT !.status = Append(@, "succeeded"),
                     !.buildId = Append(@, buildId),
                     !.buildNumber = Append(@, result.data.build.buildNumber),
                     !.logPath = Append(@, buildLogsUrl(buildId)),
                     !.deploymentUrl =
                         IF /\ result.data.deployment.present
                            /\ result.data.deployment.url # Undefined
                         THEN Append(@, result.data.deployment.url)
                         ELSE @,
                     !.response = Append(@, JSON_stringify(result.data))]
    ELSE IF result.timeout
    THEN [out EXCEPT !.status = Append(@, "timeout"),
                     !.failed = Append(@, "Build timed out")]
    ELSE [out EXCEPT !.status = Append(@, "failed"),
                     !.buildId = Append(@, buildId),
                     !.response = Append(@, JSON_stringify(result.data)),
                     !.failed = Append(@, "Build failed")]

\* return { success, data, timeout } of the poller, and run() up to its end.
p000_pollBuildStatus_return(result) ==
    /\ pollResult' = [NoResult EXCEPT !.returned = TRUE, !.success = result.success,
                                      !.data = result.data, !.timeout = result.timeout]
    /\ out' = handleBuildResult(result)
    /\ pc' = "done"

\* The head of for (attempt = 1; attempt <= maxAttempts; attempt++) with
\* attempt = k: the next GET, or the timeout after the loop.
p000_pollBuildStatus_loop(k) ==
    /\ attempt' = k
    /\ IF k <= maxAttempts
       THEN /\ gets' = gets + 1
            /\ inflight' = Append(Settled, pollRequest)
            /\ pc' = "awaitPoll"
            /\ UNCHANGED <<pollResult, out>>
       ELSE /\ gets' = gets
            /\ inflight' = Settled
            /\ p000_pollBuildStatus_return(
                   [success |-> FALSE, data |-> Null, timeout |-> TRUE])

\* The try block after the GET resolved with body d whose build is an object.
p000_pollBuildStatus_try(d) ==
    LET status == d.build.status IN
    IF p000_isSucceeded(status)
    THEN /\ UNCHANGED <<attempt, gets, sleeps, sleepMs>>
         /\ inflight' = Settled
         /\ p000_pollBuildStatus_return(
                [success |-> TRUE, data |-> d, timeout |-> FALSE])
    ELSE IF p000_isFailed(status)
    THEN /\ UNCHANGED <<attempt, gets, sleeps, sleepMs>>
         /\ inflight' = Settled
         /\ p000_pollBuildStatus_return(
                [success |-> FALSE, data |-> d, timeout |-> FALSE])
    ELSE /\ sleeps' = sleeps + 1
         /\ sleepMs' = sleepMs + pollingInterval * 1000
         /\ inflight' = Settled
         /\ pc' = "sleepTry"
         /\ UNCHANGED <<attempt, gets, pollResult, out>>

\* The catch block.
p000_pollBuildStatus_catch ==
    IF attempt < maxAttempts
    THEN /\ sleeps' = sleeps + 1
         /\ sleepMs' = sleepMs + pollingInterval * 1000
         /\ inflight' = Settled
         /\ pc' = "sleepCatch"
         /\ UNCHANGED <<attempt, gets, pollResult, out>>
    ELSE /\ sleeps' = sleeps
         /\ sleepMs' = sleepMs
         /\ p000_pollBuildStatus_loop(attempt + 1)

\* A poll GET settles as o.  response.data.build of a null body, and
\* build.status of a body without build, throw a TypeError inside the try.
p000_pollBuildStatus_settled(o) ==
    /\ pc = "awaitPoll"
    /\ variant \in ForVariants
    /\ Observe(o)
    /\ UNCHANGED <<cfg, attempts, lastResponse, buildId, posts>>
    /\ IF o.kind = "ok" /\ ~o.body.isNull /\ o.body.build.present
       THEN p000_pollBuildStatus_try(o.body)
       ELSE p000_pollBuildStatus_catch

\* await sleep(...) resolves: attempt++, then the loop head.
p000_pollBuildStatus_slept ==
    /\ pc \in {"sleepTry", "sleepCatch"}
    /\ variant \in ForVariants
    /\ UNCHANGED <<cfg, hist, trigger, attempts, lastResponse, buildId, posts, sleeps, sleepMs>>
    /\ p000_pollBuildStatus_loop(attempt + 1)

----------------------------------------------------------------------------
(* run(): the trigger.                                                     *)

\* run_catch that swallows the error without core.setFailed.
run_catch_silent ==
    /\ out' = out
    /\ pc' = "done"
    /\ UNCHANGED <<attempts, attempt, lastResponse, pollResult, gets, sleeps, sleepMs>>

\* catch (error) { core.setFailed(`Action failed: ...`) } of run().
run_catch ==
    /\ out' = [out EXCEPT !.failed = Append(@, "Action failed")]
    /\ pc' = "done"
    /\ UNCHANGED <<attempts, attempt, lastResponse, pollResult, gets, sleeps, sleepMs>>

\* run() returns after setting the outputs of the trigger response r.
run_early(status, r, failed) ==
    /\ out' = [out EXCEPT !.status = Append(@, status),
                          !.response = Append(@, JSON_stringify(r)),
                          !.failed = IF failed THEN Append(@, "execution failed") ELSE @]
    /\ pc' = "done"
    /\ UNCHANGED <<attempts, attempt, lastResponse, pollResult, gets, sleeps, sleepMs>>

\* run_start without the fs.existsSync test of uploadBuild.
run_start_noExistsCheck ==
    /\ pc = "start"
    /\ UNCHANGED <<cfg, hist, trigger, buildId>>
    /\ IF ~inputsGiven
       THEN /\ run_catch
            /\ UNCHANGED <<posts, inflight>>
       ELSE /\ posts' = posts + 1
            /\ \E ref \in Refs : inflight' = Append(inflight, triggerRequest(ref))
            /\ pc' = "awaitTrigger"
            /\ UNCHANGED <<attempts, attempt, lastResponse, pollResult, gets,
                           sleeps, sleepMs, out>>

\* run_start issuing the trigger POST a second time.
run_start_twice ==
    /\ pc = "start"
    /\ UNCHANGED <<cfg, hist, trigger, buildId>>
    /\ IF ~inputsGiven \/ (variant = "p000b" /\ run_mode = "upload" /\ ~zipExists)
       THEN /\ run_catch
            /\ UNCHANGED <<posts, inflight>>
       ELSE /\ posts' = posts + 2
            /\ \E ref \in Refs :
                   inflight' = Append(Append(inflight, triggerRequest(ref)),
                                      triggerRequest(ref))
            /\ pc' = "awaitTrigger"
            /\ UNCHANGED <<attempts, attempt, lastResponse, pollResult, gets,
                           sleeps, sleepMs, out>>

\* run() from its start to the first await.  core.getInput throws when a
\* required input is absent, and uploadBuild throws when the zip file does
\* not exist, both before the POST; every other path issues the POST.
run_start ==
    /\ pc = "start"
    /\ UNCHANGED <<cfg, hist, trigger, buildId>>
    /\ IF ~inputsGiven \/ (variant = "p000b" /\ run_mode = "upload" /\ ~zipExists)
       THEN /\ run_catch
            /\ UNCHANGED <<posts, inflight>>
       ELSE /\ posts' = posts + 1
            /\ \E ref \in Refs : inflight' = Append(inflight, triggerRequest(ref))
            /\ pc' = "awaitTrigger"
            /\ UNCHANGED <<attempts, attempt, lastResponse, pollResult, gets,
                           sleeps, sleepMs, out>>

\* index.js: the trigger POST settles as o.
index_run_triggered(o) ==
    /\ pc = "awaitTrigger"
    /\ variant = "index"
    /\ UNCHANGED <<cfg, hist, posts>>
    /\ ObserveTrigger(o)
    /\ IF o.kind # "ok" \/ o.body.isNull
       THEN /\ run_catch
            /\ inflight' = Settled
            /\ UNCHANGED buildId
       ELSE /\ buildId' = index_buildId(o.body)
            /\ IF index_buildId(o.body) = Undefined
               THEN run_early("completed", o.body, FALSE) /\ inflight' = Settled
               ELSE IF index_isCompleted(o.body)
               THEN run_early("completed", o.body, FALSE) /\ inflight' = Settled
               ELSE IF index_isFailed(o.body)
               THEN run_early("failed", o.body, TRUE) /\ inflight' = Settled
               ELSE /\ attempt' = attempt
                    /\ pollBuildStatus_loop(0, Placeholder, sleeps)

\* part_002: the trigger POST of callEndpoint settles as o.
p002_run_triggered(o) ==
    /\ pc = "awaitTrigger"
    /\ variant = "p002"
    /\ UNCHANGED <<cfg, hist, posts, buildId>>
    /\ ObserveTrigger(o)
    /\ IF o.kind # "ok" \/ o.body.isNull
       THEN run_catch /\ inflight' = Settled
       ELSE IF p002_isCompleted(o.body)
       THEN run_early("completed", o.body, FALSE) /\ inflight' = Settled
       ELSE IF p002_isFailed(o.body)
       THEN run_early("failed", o.body, TRUE) /\ inflight' = Settled
       ELSE /\ attempt' = attempt
            /\ pollBuildStatus_loop(0, Placeholder, sleeps)

\* part_001: the trigger POST settles as o; there is no polling.
p001_run_triggered(o) ==
    /\ pc = "awaitTrigger"
    /\ variant = "p001"
    /\ UNCHANGED <<cfg, hist, posts, buildId>>
    /\ ObserveTrigger(o)
    /\ inflight' = Settled
    /\ IF o.kind # "ok"
       THEN run_catch
       ELSE run_early("completed", o.body, FALSE)

\* part_000: the trigger POST (createBuild or uploadBuild) settles as o, in
\* run (first copy), runBuildMode and runUploadMode.
p000_run_triggered(o) ==
    /\ pc = "awaitTrigger"
    /\ variant \in ForVariants
    /\ UNCHANGED <<cfg, hist, posts>>
    /\ ObserveTrigger(o)
    /\ IF o.kind # "ok" \/ o.body.isNull
       THEN /\ run_catch
            /\ inflight' = Settled
            /\ UNCHANGED buildId
       ELSE /\ buildId' = p000_buildId(o.body)
            /\ IF p000_buildId(o.body) = Undefined
               THEN run_catch /\ inflight' = Settled
               ELSE /\ UNCHANGED <<attempts, lastResponse, sleeps, sleepMs>>
                    /\ p000_pollBuildStatus_loop(1)

----------------------------------------------------------------------------
TriggerSettles ==
    \E o \in Outcomes(TriggerBodies) :
        \/ index_run_triggered(o)
        \/ p000_run_triggered(o)
        \/ p001_run_triggered(o)
        \/ p002_run_triggered(o)

PollSettles ==
    \E o \in Outcomes(PollBodies) :
        \/ pollBuildStatus_settled(o)
        \/ p000_pollBuildStatus_settled(o)

SleepSettles ==
    \/ pollBuildStatus_slept
    \/ p000_pollBuildStatus_slept

Next ==
    \/ run_start
    \/ TriggerSettles
    \/ PollSettles
    \/ SleepSettles

Spec == Init /\ [][Next]_vars

----------------------------------------------------------------------------
(* What an invocation shows to its caller.                                 *)

Done == pc = "done"

Polls == variant \in WhileVariants \cup ForVariants

\* The poller's outcome, "none" while it has not returned.
PollOutcome ==
    IF ~pollResult.returned THEN "none"
    ELSE IF variant \in WhileVariants
         THEN (CASE pollResult.status = "completed" -> "Succeeded"
                 [] pollResult.status = "failed" -> "Failed"
                 [] pollResult.status = "timeout" -> "TimedOut"
                 [] OTHER -> "other")
         ELSE (IF pollResult.timeout THEN "TimedOut"
               ELSE IF pollResult.success THEN "Succeeded"
               ELSE "Failed")

\* The payload the poller returned with its outcome.
PollPayload ==
    IF variant \in WhileVariants THEN pollResult.response ELSE pollResult.data

\* The outcome a status token of the variant stands for.
TokenOutcome(s) ==
    IF s \in SuccessTokens THEN "Succeeded"
    ELSE IF s \in FailureTokens THEN "Failed"
    ELSE "Running"

\* The action was marked failed (core.setFailed was called).
MarkedFailed == Len(out.failed) > 0

----------------------------------------------------------------------------
(* C1 *)

\* C1: in every poller variant, for every sequence of poll outcomes, one call
\* of the poller issues at most maxAttempts GET requests and performs at most
\* maxAttempts - 1 sleeps.
C1_AtMostMaxAttempts ==
    (Polls /\ maxAttempts > 0) =>
        /\ gets <= maxAttempts
        /\ sleeps <= maxAttempts - 1

\* What holds of C1: the GET bound in every variant, the sleep bound in the
\* while-loop pollers; the for-loop poller sleeps once more.
C1_Holds ==
    (Polls /\ maxAttempts > 0) =>
        /\ gets <= maxAttempts
        /\ variant \in WhileVariants => sleeps <= maxAttempts - 1
        /\ variant \in ForVariants => sleeps <= maxAttempts

----------------------------------------------------------------------------
(* C2 *)

\* C2: if poll attempt k is the first to receive a 2xx response whose status
\* is a recognised terminal token, the poller returns the outcome of that
\* token with the payload of attempt k after exactly k GET requests, and for
\* k = 1 without any sleep (index.js, part_000).
C2_FirstTerminalEndsPolling ==
    (variant \in {"index"} \cup ForVariants /\ firstTerminal.at > 0) =>
        /\ PollOutcome = TokenOutcome(StatusRead(firstTerminal.body))
        /\ PollPayload = firstTerminal.body
        /\ gets = firstTerminal.at
        /\ (firstTerminal.at = 1 => sleeps = 0)

\* What holds of C2: the loop ends at attempt k with a terminal outcome and
\* the payload of attempt k; the outcome is the token's unless the body also
\* has complete === true, which index.js tests first.
C2_Holds ==
    (variant \in {"index"} \cup ForVariants /\ firstTerminal.at > 0) =>
        /\ PollOutcome \in {"Succeeded", "Failed"}
        /\ (variant \in ForVariants \/ ~firstTerminal.body.complete) =>
               PollOutcome = TokenOutcome(StatusRead(firstTerminal.body))
        /\ PollPayload = firstTerminal.body
        /\ gets = firstTerminal.at
        /\ (firstTerminal.at = 1 => sleeps = 0)

----------------------------------------------------------------------------
(* C3 *)

\* C3: if every poll attempt fails or returns a non-terminal status, in any
\* mixture, the poller returns timeout after exactly maxAttempts GET
\* requests, for every maxAttempts > 0.
C3_ExhaustionTimesOut ==
    (Polls /\ maxAttempts > 0 /\ allRunning) =>
        /\ gets <= maxAttempts
        /\ pollResult.returned => (PollOutcome = "TimedOut" /\ gets = maxAttempts)
        /\ (Done /\ gets > 0) => pollResult.returned

\* C3 witness: a timeout after a budget of at least two attempts that mixed
\* 2xx non-terminal responses with failed requests.
C3_Witness ==
    /\ Polls /\ maxAttempts >= 2 /\ allRunning /\ ~allFailed
    /\ lastKind \in {"http", "net"}
    /\ PollOutcome = "TimedOut" /\ gets = maxAttempts

----------------------------------------------------------------------------
(* C4 *)

\* run() ended in its catch handler: the only call is core.setFailed.
Caught == out.failed = <<"Action failed">>

\* The paths of run() that throw: a missing required input, a missing zip
\* file in upload mode, a rejected trigger POST, a null trigger body where a
\* field of it is read, and in part_000 a trigger body without build.id.
RunThrows ==
    \/ ~inputsGiven
    \/ run_mode = "upload" /\ ~zipExists
    \/ trigger.kind \in {"http", "net"}
    \/ trigger.isNull /\ variant # "p001"
    \/ variant \in ForVariants /\ trigger.kind = "ok" /\ ~trigger.buildDotId

\* C4 as stated: every invocation of run() that finishes has set the status
\* output exactly once, on every path, and the poller never yields both a
\* terminal status and a timeout.
C4_StatusSetExactlyOnce ==
    /\ Done => Len(out.status) = 1
    /\ ~(pollResult.success /\ pollResult.timeout)

\* C4 as amended: the status output is set at most once; an invocation that
\* finishes has set it exactly once unless run() ended in its catch handler,
\* where it is never set and the action is only marked failed; the poller
\* never yields both a terminal status and a timeout.
C4_StatusSetAtMostOnce ==
    /\ Len(out.status) <= 1
    /\ ~(pollResult.success /\ pollResult.timeout)
    /\ PollOutcome \in {"none", "Succeeded", "Failed", "TimedOut"}
    /\ Done =>
         /\ Caught <=> RunThrows
         /\ \/ /\ ~Caught
               /\ Len(out.status) = 1
               /\ out.status[1] \in {"completed", "succeeded", "failed", "timeout"}
               /\ Len(out.failed) <= 1
            \/ /\ Caught
               /\ out.status = <<>>
               /\ gets = 0

\* C4 witness: an invocation that finished in the catch handler after the
\* trigger POST was rejected.
C4_Witness == Done /\ Caught /\ trigger.kind = "http" /\ out.status = <<>>

----------------------------------------------------------------------------
(* C5 *)

\* The status vocabulary of the specification.
SpecClass(s) ==
    IF s \in {"Succeeded", "succeeded", "success", "completed"} THEN "Succeeded"
    ELSE IF s \in {"Failed", "failed", "error"} THEN "Failed"
    ELSE "Running"

\* How the poller took the most recent 2xx response.
Reaction == IF PollOutcome \in {"Succeeded", "Failed"} THEN PollOutcome ELSE "Running"

\* C5: a 2xx poll response whose status is in {Succeeded, succeeded, success,
\* completed} is taken as Succeeded, one whose status is in {Failed, failed,
\* error} as Failed, and any other or missing status as Running (index.js,
\* part_000).  Responses with complete === true are left to C6.
C5_StatusVocabulary ==
    (/\ variant \in {"index"} \cup ForVariants
     /\ lastKind = "ok"
     /\ ~last2xx.body.isNull
     /\ ~last2xx.body.complete) =>
        Reaction = SpecClass(StatusRead(last2xx.body))

\* What holds of C5: each poller classifies by its own tokens, which leave
\* out 'Succeeded' and 'Failed' in index.js and 'succeeded' in part_000.
C5_Holds ==
    (/\ variant \in {"index"} \cup ForVariants
     /\ lastKind = "ok"
     /\ ~last2xx.body.isNull
     /\ ~last2xx.body.complete) =>
        Reaction = TokenOutcome(StatusRead(last2xx.body))

----------------------------------------------------------------------------
(* C6 *)

\* C6: a poll response with complete == true whose status is not a failure
\* token is interpreted as Succeeded and ends polling (index.js, part_002,
\* part_000).
C6_CompleteFlagSucceeds ==
    (/\ Polls
     /\ lastKind = "ok"
     /\ ~last2xx.body.isNull
     /\ last2xx.body.complete
     /\ SpecClass(last2xx.body.status) # "Failed"
     /\ SpecClass(last2xx.body.build.status) # "Failed") =>
        PollOutcome = "Succeeded"

\* What holds of C6: the while-loop pollers honour the flag.
C6_Holds ==
    (/\ variant \in WhileVariants
     /\ lastKind = "ok"
     /\ ~last2xx.body.isNull
     /\ last2xx.body.complete) =>
        PollOutcome = "Succeeded"

----------------------------------------------------------------------------
(* C7 *)

\* C7: when the trigger request succeeds but its response has no build id
\* field at all, run() marks the invocation failed, does not report it as
\* completed or succeeded, and issues no poll GET (index.js, part_000).
C7_NoBuildIdFailsFast ==
    (/\ variant \in {"index"} \cup ForVariants
     /\ Done
     /\ trigger.kind = "ok" /\ ~trigger.isNull
     /\ ~trigger.topId /\ ~trigger.buildDotId) =>
        /\ MarkedFailed
        /\ out.status \notin {<<"completed">>, <<"succeeded">>}
        /\ gets = 0

\* What holds of C7: part_000 fails fast; index.js issues no poll GET either
\* but reports status 'completed' without marking the invocation failed.
C7_Holds ==
    (/\ variant \in {"index"} \cup ForVariants
     /\ Done
     /\ trigger.kind = "ok" /\ ~trigger.isNull
     /\ ~trigger.topId /\ ~trigger.buildDotId) =>
        /\ gets = 0
        /\ variant \in ForVariants => (Caught /\ out.status = <<>>)
        /\ variant = "index" => (~MarkedFailed /\ out.status = <<"completed">>)

----------------------------------------------------------------------------
(* C8 *)

\* C8: if the trigger POST fails (non-2xx response or network/timeout
\* error), the invocation is marked failed, exactly one POST has been issued
\* (no retry) and no poll GET is issued.
C8_TriggerFailureIsFatal ==
    /\ posts <= 1
    /\ trigger.kind \in {"http", "net"} =>
         /\ Done
         /\ MarkedFailed
         /\ posts = 1
         /\ gets = 0
         /\ outstanding = 0

\* C8 witness: an invocation that ended after its trigger POST met a network
\* error.
C8_Witness == trigger.kind = "net" /\ Done /\ MarkedFailed /\ posts = 1 /\ gets = 0

----------------------------------------------------------------------------
(* C9 *)

\* Attempts of the budget used up by the GETs that have settled.
Consumed == IF variant \in WhileVariants THEN attempts ELSE attempt - 1

\* C9: a poll GET that fails never ends the loop and never yields Failed: it
\* consumes exactly one attempt and polling continues while attempts remain;
\* if all maxAttempts attempts fail the outcome is timeout, and no exception
\* escapes the poller.
C9_FailedPollIsTransient ==
    (Polls /\ maxAttempts > 0) =>
        /\ lastKind \in {"http", "net"} =>
             /\ PollOutcome \in {"none", "TimedOut"}
             /\ gets < maxAttempts => pc \in {"sleepCatch", "awaitPoll"}
             /\ pollResult.returned => gets = maxAttempts
             /\ pc = "sleepCatch" => Consumed = gets - 1
             /\ pc = "awaitPoll" => Consumed = gets - 1
        /\ (allFailed /\ Done /\ gets > 0) =>
             (PollOutcome = "TimedOut" /\ gets = maxAttempts)
        /\ (Done /\ gets > 0) => (pollResult.returned /\ ~Caught)

\* C9 witness: a budget of at least two attempts, all of which failed, ended
\* in timeout.
C9_Witness ==
    /\ Polls /\ maxAttempts >= 2 /\ allFailed /\ Done
    /\ gets = maxAttempts /\ PollOutcome = "TimedOut"

----------------------------------------------------------------------------
(* C10 *)

\* C10: when the poller returns timeout, its payload is the body of the most
\* recent poll attempt that received a 2xx response, and none if no attempt
\* received one (index.js, part_000).
C10_TimeoutPayload ==
    (/\ variant \in {"index"} \cup ForVariants
     /\ maxAttempts > 0
     /\ PollOutcome = "TimedOut") =>
        PollPayload = (IF last2xx.seen THEN last2xx.body ELSE Null)

\* What holds of C10: index.js returns the most recent 2xx body, and the
\* placeholder object when there is none; part_000 always returns null.
C10_Holds ==
    (Polls /\ PollOutcome = "TimedOut") =>
        /\ variant \in WhileVariants =>
              PollPayload = (IF last2xx.seen THEN last2xx.body ELSE Placeholder)
        /\ variant \in ForVariants => PollPayload = Null

----------------------------------------------------------------------------
(* C11: the branch value of the build request.                             *)

\* The build request of createBuild is in flight.
BuildRequested ==
    /\ pc = "awaitTrigger"
    /\ inflight # <<>>
    /\ Head(inflight).body.kind = "build"

KnownRefPrefixes == {"refs/heads/", "refs/tags/", "refs/pull/"}

\* The branch value the resolution rules give for github.context.ref = ref.
ExpectedBranch(ref) ==
    CASE ref.prefix \in {"refs/heads/", "refs/tags/"} -> Text("", ref.name)
      [] ref.prefix = "refs/pull/" -> ref
      [] OTHER -> context_sha

\* C11: in run of index.js and in run/runBuildMode of part_000 the branch
\* value sent in the build request is the branch name for refs/heads/*, the
\* tag name for refs/tags/*, the raw ref for refs/pull/*, and for every
\* other ref the commit SHA, with a warning and without failing the run.
C11_BranchResolution ==
    (variant \in {"index"} \cup ForVariants /\ BuildRequested) =>
        LET r == Head(inflight) IN
        /\ r.body.branch = ExpectedBranch(r.ref)
        /\ r.warned <=> r.ref.prefix \notin KnownRefPrefixes
        /\ out.failed = <<>>

\* What the code sends: a branch or tag named 'unknown' is replaced by the
\* commit SHA in every variant, and index.js sends a ref of no known kind
\* as it is, without a warning, unless the ref is the string 'unknown'.
C11_Holds ==
    (variant \in {"index"} \cup ForVariants /\ BuildRequested) =>
        LET r == Head(inflight) IN
        /\ out.failed = <<>>
        /\ r.body.commitSha = context_sha
        /\ IF r.ref.name = "unknown" /\ r.ref.prefix # "refs/pull/"
           THEN r.body.branch = context_sha /\ r.warned
           ELSE IF variant = "index" /\ r.ref.prefix \notin KnownRefPrefixes
           THEN r.body.branch = r.ref /\ ~r.warned
           ELSE /\ r.body.branch = ExpectedBranch(r.ref)
                /\ r.warned <=> r.ref.prefix \notin KnownRefPrefixes

----------------------------------------------------------------------------
(* C12: the three-attempt scenario.                                        *)

\* C12: with maxAttempts = 3 and pollInterval = 1, when attempt 1 fails with
\* a network error, attempt 2 returns { status: 'in_progress' } and attempt 3
\* returns { status: 'Succeeded', build: { id: 'b1', buildNumber: 7 } }, the
\* outcome is Succeeded with build number 7 after exactly 3 GETs and exactly
\* 2 sleeps of 1 second each.
C12_ThreeAttemptScenario ==
    (maxAttempts = 3 /\ pollingInterval = 1 /\ scenario = 3) =>
        /\ Done
        /\ PollOutcome = "Succeeded"
        /\ out.buildNumber = <<"7">>
        /\ gets = 3
        /\ sleeps = 2
        /\ sleepMs = 2000

\* What the code does with the three responses of the scenario: index.js and
\* part_002 take the third as Running and time out after 3 GETs and 2 sleeps
\* of 1 second; part_000, whose maxAttempts and pollingInterval are fixed at
\* 60 and 10, takes it as Running and sleeps a third time.
C12_Holds ==
    scenario = 3 =>
        /\ (variant \in WhileVariants /\ maxAttempts = 3 /\ pollingInterval = 1) =>
              /\ Done /\ PollOutcome = "TimedOut"
              /\ gets = 3 /\ sleeps = 2 /\ sleepMs = 2000
              /\ out.status = <<"timeout">> /\ out.buildNumber = <<>>
        /\ variant \in ForVariants =>
              /\ ~Done /\ PollOutcome = "none"
              /\ sleeps = 3 /\ sleepMs = 3 * p000_pollingInterval * 1000

----------------------------------------------------------------------------
(* C13: a build that has failed when the trigger returns.                  *)

\* C13: when the trigger response is { build: { id: 'b2', status: 'Failed',
\* statusMessage: 'compile error' } }, run of index.js and run/runBuildMode
\* of part_000 issue zero poll GETs and the outcome is Failed, with the
\* action marked failed.
C13_ImmediateFailure ==
    (variant \in {"index"} \cup ForVariants /\ trigger.failedAtOnce) =>
        /\ gets = 0
        /\ Done
        /\ out.status = <<"failed">>
        /\ MarkedFailed

\* What the code does with that response: index.js finds no build id at the
\* top level and reports 'completed'; part_000 takes build.id and polls.
C13_Holds ==
    trigger.failedAtOnce =>
        /\ variant = "index" =>
              /\ gets = 0 /\ Done
              /\ out.status = <<"completed">> /\ ~MarkedFailed
        /\ variant \in ForVariants => buildId = "b2" /\ gets >= 1

----------------------------------------------------------------------------
(* C14: index.js, a trigger response that is already terminal.             *)

----------------------------------------------------------------------------
(* C15: invalid configuration.                                             *)

\* The max-attempts, polling-interval or timeout input is not positive.
InvalidConfig == maxAttempts <= 0 \/ pollingInterval <= 0 \/ timeout <= 0

\* C15: a max-attempts, polling-interval or timeout that is not positive is
\* rejected as a configuration error before any HTTP request: index.js (and
\* part_002, which reads the same inputs) sends no trigger POST and never
\* enters the poll loop with such a value.
C15_InvalidConfigRejected ==
    (variant \in WhileVariants /\ InvalidConfig) =>
        /\ posts = 0
        /\ gets = 0
        /\ inflight = <<>>
        /\ Done => MarkedFailed

\* What the code does: the inputs are not validated.  The trigger POST is
\* sent whatever their values, with the timeout as it was given; with
\* maxAttempts <= 0 the loop body never runs and the poller returns
\* 'timeout' at once; with pollingInterval <= 0 the loop runs and sleeps for
\* pollingInterval * 1000 ms.
C15_Holds ==
    (variant \in WhileVariants /\ inputsGiven /\ pc # "start") =>
        /\ posts = 1
        /\ \A i \in 1 .. Len(inflight) : inflight[i].timeout = timeout
        /\ maxAttempts <= 0 => gets = 0 /\ PollOutcome \in {"none", "TimedOut"}
        /\ sleepMs = sleeps * pollingInterval * 1000

----------------------------------------------------------------------------
(* C16: upload mode without the artifact.                                  *)

\* C16: in upload mode, when the artifact file does not exist, the
\* invocation is marked failed and no HTTP request is made: neither the
\* upload POST nor any poll GET.
C16_MissingArtifactNoRequest ==
    (variant = "p000b" /\ run_mode = "upload" /\ ~zipExists) =>
        /\ posts = 0
        /\ gets = 0
        /\ inflight = <<>>
        /\ pc \in {"start", "done"}
        /\ Done => MarkedFailed /\ Caught /\ out.status = <<>>

C16_Witness ==
    /\ variant = "p000b" /\ run_mode = "upload" /\ ~zipExists /\ inputsGiven
    /\ Done /\ MarkedFailed
    /\ posts = 0 /\ gets = 0

----------------------------------------------------------------------------
(* C17: one trigger, then sequential polls.                                *)

\* run() throws before the trigger request is made.
AbortsBeforeTrigger ==
    ~inputsGiven \/ (variant = "p000b" /\ run_mode = "upload" /\ ~zipExists)

\* The trigger POST is issued once at most and is not outstanding once a GET
\* has been issued; the GETs are issued one after another; at most one HTTP
\* request is outstanding at any moment.
SequentialRequests ==
    /\ posts <= 1
    /\ Len(inflight) <= 1
    /\ gets > 0 =>
          /\ posts = 1
          /\ trigger.kind = "ok"
          /\ \A i \in 1 .. Len(inflight) : inflight[i].method = "GET"
    /\ pc = "awaitTrigger" <=> (inflight # <<>> /\ Head(inflight).method = "POST")
    /\ pc = "awaitPoll" <=> (inflight # <<>> /\ Head(inflight).method = "GET")

\* C17 as stated: within one invocation exactly one trigger POST is issued,
\* it completes before the first poll GET is issued, the GETs are issued
\* strictly one after another, and at most one HTTP request is outstanding
\* at any moment.
C17_ExactlyOneTrigger ==
    /\ Done => posts = 1
    /\ SequentialRequests

\* C17 as amended: at most one trigger POST is issued, exactly one unless
\* run() throws before the trigger (a required input is absent, or the zip
\* file of upload mode does not exist), and then no request is made at all.
C17_AtMostOneTrigger ==
    /\ (pc # "start" /\ ~AbortsBeforeTrigger) => posts = 1
    /\ AbortsBeforeTrigger => posts = 0 /\ gets = 0 /\ inflight = <<>>
    /\ SequentialRequests

C17_Witness ==
    /\ pc = "awaitPoll" /\ gets = 2 /\ posts = 1
    /\ Len(inflight) = 1 /\ Head(inflight).method = "GET"
    /\ trigger.kind = "ok"

----------------------------------------------------------------------------
(* C18: exhaustion and remote failure are reported distinctly.             *)

\* The most recent poll GET was answered 2xx with a failure token.
FailureReported ==
    lastKind = "ok" /\ StatusRead(last2xx.body) \in FailureTokens

\* C18: when the poller times out the status output is 'timeout', never
\* 'failed'; when the remote reports a failure token the status output is
\* 'failed', never 'timeout'; in both cases the action is marked failed
\* exactly once; on a succeeded or completed outcome the action is never
\* marked failed.
C18_DistinctReporting ==
    Polls =>
        /\ PollOutcome = "TimedOut" =>
              out.status = <<"timeout">> /\ Len(out.failed) = 1
        /\ FailureReported =>
              Done /\ out.status = <<"failed">> /\ Len(out.failed) = 1
        /\ PollOutcome = "Succeeded" =>
              out.status \in {<<"completed">>, <<"succeeded">>} /\ out.failed = <<>>

\* What holds of the code: the status output follows the poller's outcome,
\* and a failure token ends the run as 'failed' unless the same body of
\* index.js or part_002 has complete === true, which ends it as 'completed'.
C18_Holds ==
    Polls =>
        /\ PollOutcome = "TimedOut" =>
              out.status = <<"timeout">> /\ Len(out.failed) = 1
        /\ PollOutcome = "Failed" =>
              /\ out.status = <<"failed">> /\ Len(out.failed) = 1
              /\ FailureReported
        /\ PollOutcome = "Succeeded" =>
              out.status \in {<<"completed">>, <<"succeeded">>} /\ out.failed = <<>>
        /\ FailureReported =>
              /\ Done
              /\ IF variant \in WhileVariants /\ last2xx.body.complete
                 THEN PollOutcome = "Succeeded"
                 ELSE PollOutcome = "Failed"

----------------------------------------------------------------------------
(* C19: the values of the status output.                                   *)

\* C19: whenever the status output is set, its value is one of 'completed',
\* 'failed' and 'timeout', in every variant.
C19_StatusOutputValues ==
    \A i \in 1 .. Len(out.status) :
        out.status[i] \in {"completed", "failed", "timeout"}

\* What holds of the code: index.js, part_001 and part_002 set those three
\* values only; part_000 sets 'succeeded' where they set 'completed'.
C19_Holds ==
    \A i \in 1 .. Len(out.status) :
        IF variant \in ForVariants
        THEN out.status[i] \in {"succeeded", "failed", "timeout"}
        ELSE out.status[i] \in {"completed", "failed", "timeout"}

----------------------------------------------------------------------------
(* C20: part_002, the status field of a poll response.                     *)

\* C20: in pollEndpoint of part_002 a 2xx poll response ends polling as
\* completed exactly when its status is 'completed' or 'success', ends it as
\* failed exactly when its status is 'failed' or 'error', and polling
\* continues on every other status value, for every value of the other
\* fields of the response.
C20_StatusFieldDecides ==
    (variant = "p002" /\ lastKind = "ok") =>
        LET status == last2xx.body.status IN
        /\ PollOutcome = "Succeeded" <=> status \in {"completed", "success"}
        /\ PollOutcome = "Failed" <=> status \in {"failed", "error"}

\* What holds of the code: complete === true ends polling as completed
\* whatever the status, a failure token included; without it the status
\* field decides as C20 says.
C20_Holds ==
    (variant = "p002" /\ lastKind = "ok") =>
        LET status == last2xx.body.status
            complete == last2xx.body.complete
        IN
        /\ PollOutcome = "Succeeded" <=> (status \in {"completed", "success"} \/ complete)
        /\ PollOutcome = "Failed" <=> (status \in {"failed", "error"} /\ ~complete)

----------------------------------------------------------------------------
(* C21: the poll loop uses the configured values.                          *)

\* The values the inputs configure, with the documented defaults.
ConfiguredMaxAttempts == parseInt_or(inputs.maxAttempts, DefaultMaxAttempts)
ConfiguredInterval == parseInt_or(inputs.pollingInterval, DefaultPollingInterval)
ConfiguredTimeout == parseInt_or(inputs.timeout, DefaultTimeout)

\* The poll loop has the attempt budget n, sleeps i seconds between
\* attempts, and every request is sent with the timeout t.
UsesValues(n, i, t) ==
    /\ gets <= (IF n > 0 THEN n ELSE 0)
    /\ PollOutcome = "TimedOut" => gets = (IF n > 0 THEN n ELSE 0)
    /\ sleepMs = sleeps * i * 1000
    /\ \A k \in 1 .. Len(inflight) : inflight[k].timeout = t

\* C21: in every variant that polls (index.js, part_000, part_002) the
\* attempt budget equals the max-attempts input and the sleep between
\* attempts equals the polling-interval input (30 and 10 seconds when the
\* inputs are absent), and every request is sent with the timeout input
\* (30000 ms when absent).
C21_ConfiguredValues ==
    Polls => UsesValues(ConfiguredMaxAttempts, ConfiguredInterval, ConfiguredTimeout)

\* What holds of the code: index.js and part_002 use the three inputs;
\* part_000 reads none of them, polls up to 60 times 10 seconds apart and
\* sends its requests without a timeout option.
C21_Holds ==
    /\ variant \in WhileVariants =>
          UsesValues(ConfiguredMaxAttempts, ConfiguredInterval, ConfiguredTimeout)
    /\ variant \in ForVariants =>
          UsesValues(p000_maxAttempts, p000_pollingInterval, Unset)

----------------------------------------------------------------------------
(* C22: termination.                                                       *)

\* A request that carries a positive timeout settles: axios rejects it when
\* the timeout expires, at the latest.
TimedRequestSettles ==
    /\ inflight # <<>>
    /\ Head(inflight).timeout > 0
    /\ (TriggerSettles \/ PollSettles)

\* run() runs, every sleep completes, and every request that carries a
\* positive timeout settles; a request without one may stay pending.
FairSpec ==
    /\ Spec
    /\ WF_vars(run_start)
    /\ WF_vars(SleepSettles)
    /\ WF_vars(TimedRequestSettles)

\* C22: every invocation terminates: every HTTP request issued carries a
\* positive timeout and the poll loop ends after at most maxAttempts
\* attempts, so run() eventually reaches a final outcome in every variant.
C22_Terminates == <>Done

----------------------------------------------------------------------------
(* C23: one sleep between consecutive polls.                               *)

Sleeping == pc \in {"sleepTry", "sleepCatch"}

\* C23: between any two consecutive poll GETs exactly one sleep of the poll
\* interval occurs, whether the earlier attempt failed in transport or
\* returned a non-terminal status, and no sleep occurs after the final
\* allowed attempt, in every poller variant.
C23_OneSleepBetweenPolls ==
    Polls =>
        /\ pc = "awaitPoll" => sleeps = gets - 1
        /\ Sleeping => sleeps = gets /\ gets < maxAttempts
        /\ (Done /\ gets >= 1) => sleeps = gets - 1
        /\ sleepMs = sleeps * pollingInterval * 1000

\* What holds of the code: index.js and part_002 sleep as C23 says; part_000
\* does too, except that a non-terminal response to the final attempt is
\* followed by one more sleep.
C23_Holds ==
    Polls =>
        /\ pc = "awaitPoll" => sleeps = gets - 1
        /\ sleepMs = sleeps * pollingInterval * 1000
        /\ variant \in WhileVariants =>
              /\ Sleeping => sleeps = gets /\ gets < maxAttempts
              /\ (Done /\ gets >= 1) => sleeps = gets - 1
        /\ variant \in ForVariants =>
              /\ pc = "sleepCatch" => sleeps = gets /\ gets < maxAttempts
              /\ pc = "sleepTry" => sleeps = gets /\ gets <= maxAttempts
              /\ (Done /\ gets >= 1) =>
                    IF PollOutcome = "TimedOut" /\ lastKind = "ok"
                       /\ last2xx.body.build.present
                    THEN sleeps = gets
                    ELSE sleeps = gets - 1

----------------------------------------------------------------------------
(* C24: a 2xx poll response without a usable body.                         *)

\* A poll GET settles as o in the variant's poller.
Settle(o) == pollBuildStatus_settled(o) \/ p000_pollBuildStatus_settled(o)

\* 2xx responses whose body is not usable: null, and in part_000 an object
\* without build.
UnusableResponses ==
    {[kind |-> "ok", body |-> Null]}
    \cup (IF variant \in ForVariants
          THEN {[kind |-> "ok", body |-> EmptyObject],
                [kind |-> "ok", body |-> [EmptyObject EXCEPT !.status = "in_progress"]]}
          ELSE {})

\* 2xx responses the variant's poller takes as Running.
RunningResponses ==
    IF variant \in ForVariants
    THEN {[kind |-> "ok", body |-> [EmptyObject EXCEPT !.build = Build("b1", "in_progress")]]}
    ELSE {[kind |-> "ok", body |-> [EmptyObject EXCEPT !.status = "in_progress"]]}

\* What the poller does once the outstanding GET settles as o.
SleepsAfter(o) == ENABLED (Settle(o) /\ sleeps' = sleeps + 1)
ReturnsAfter(o) == ENABLED (Settle(o) /\ pollResult'.returned)
AbortsAfter(o) == ENABLED (Settle(o) /\ pc' = "done" /\ ~pollResult'.returned)

\* C24: a 2xx poll response whose body is not a usable object is handled
\* like a Running response for loop continuation: it does not abort the
\* invocation, it consumes one attempt, and the poller sleeps after it
\* exactly when it sleeps after a Running response to the same attempt.
C24_UnusableLikeRunning ==
    (Polls /\ pc = "awaitPoll") =>
        \A u \in UnusableResponses, r \in RunningResponses :
            /\ ~AbortsAfter(u)
            /\ SleepsAfter(u) <=> SleepsAfter(r)
            /\ ReturnsAfter(u) <=> ReturnsAfter(r)

\* What holds of the code: the two are handled alike in index.js and
\* part_002 at every attempt and in part_000 at every attempt but the last,
\* where part_000 sleeps after a Running response only.
C24_Holds ==
    (Polls /\ pc = "awaitPoll") =>
        \A u \in UnusableResponses, r \in RunningResponses :
            /\ ~AbortsAfter(u)
            /\ IF variant \in ForVariants /\ attempt = maxAttempts
               THEN /\ SleepsAfter(r) /\ ~SleepsAfter(u)
                    /\ ReturnsAfter(u) /\ ~ReturnsAfter(r)
               ELSE /\ SleepsAfter(u) <=> SleepsAfter(r)
                    /\ ReturnsAfter(u) <=> ReturnsAfter(r)

----------------------------------------------------------------------------
(* C25: a failure token together with complete === true.                   *)

\* C25: in pollBuildStatus of index.js and pollEndpoint of part_002 a poll
\* response that has complete === true together with the failure token
\* 'failed' or 'error' in status is not taken as Succeeded: the failure
\* token takes precedence and the outcome is failed.
C25_FailurePrecedence ==
    (/\ variant \in WhileVariants
     /\ lastKind = "ok"
     /\ last2xx.body.complete
     /\ last2xx.body.status \in {"failed", "error"}) =>
        /\ PollOutcome = "Failed"
        /\ out.status = <<"failed">>
        /\ MarkedFailed

\* What holds of the code: such a response ends polling at once and is
\* reported as completed, without marking the action failed.
C25_Holds ==
    (/\ variant \in WhileVariants
     /\ lastKind = "ok"
     /\ last2xx.body.complete
     /\ last2xx.body.status \in {"failed", "error"}) =>
        /\ Done
        /\ PollOutcome = "Succeeded"
        /\ out.status = <<"completed">>
        /\ ~MarkedFailed

----------------------------------------------------------------------------
(* C26: a successful payload without a deployment URL.                     *)

\* The poller of part_000 returned success with a payload that has no
\* deployment object, or one without url.
SucceededWithoutUrl ==
    /\ variant \in ForVariants
    /\ PollOutcome = "Succeeded"
    /\ \/ ~PollPayload.deployment.present
       \/ PollPayload.deployment.url = Undefined

\* C26: when the final successful payload has no deployment object, or no
\* deployment.url, the invocation still ends as succeeded without being
\* marked failed: status, build-id, build-number, log-path and response are
\* set, deployment-url is left unset, and log-path is the UI base followed
\* by /builds/{projectId}/{buildId}.
C26_NoDeploymentIsNotAnError ==
    SucceededWithoutUrl =>
        /\ Done
        /\ ~MarkedFailed
        /\ out.status = <<"succeeded">>
        /\ out.buildId = <<buildId>>
        /\ out.buildNumber = <<PollPayload.build.buildNumber>>
        /\ out.logPath = << <<UI_BASE_URL, "/builds/", projectId, "/", buildId>> >>
        /\ out.response = <<JSON_stringify(PollPayload)>>
        /\ out.deploymentUrl = <<>>

C26_Witness ==
    /\ SucceededWithoutUrl /\ Done
    /\ PollPayload.deployment.present
    /\ out.status = <<"succeeded">>
    /\ Len(out.logPath) = 1 /\ out.deploymentUrl = <<>>

----------------------------------------------------------------------------
(* C27: index.js, a trigger response that reports a failure.               *)

\* C27: in run of index.js a trigger response whose status is the failure
\* token 'failed' or 'error' is never reported as status 'completed': the
\* invocation ends with status 'failed' and is marked failed, whether or not
\* the response also carries a build id.
C27_TriggerFailureReported ==
    (variant = "index" /\ trigger.failure) =>
        /\ Done
        /\ gets = 0
        /\ out.status = <<"failed">>
        /\ MarkedFailed

\* What holds of the code: the failure is reported only when the response
\* carries a build id and neither a success token nor complete === true;
\* every other such response is reported as completed.
C27_Holds ==
    (variant = "index" /\ trigger.failure) =>
        /\ Done
        /\ gets = 0
        /\ IF trigger.topId /\ ~trigger.success
           THEN out.status = <<"failed">> /\ MarkedFailed
           ELSE out.status = <<"completed">> /\ ~MarkedFailed

----------------------------------------------------------------------------
(* C28: lastResponse of the while-loop poller.                             *)

\* The poller of index.js / part_002 is running.
InPoller ==
    /\ variant \in WhileVariants
    /\ pc \in {"awaitPoll", "sleepTry", "sleepCatch"}

\* The poll attempt that just settled ended in the catch block: the GET was
\* rejected, or it resolved with a null body and reading its status threw.
EndedInCatch == lastKind # "ok" \/ last2xx.body.isNull

\* C28: in pollBuildStatus of index.js and pollEndpoint of part_002, a poll
\* attempt that ends in the catch branch leaves lastResponse unchanged, and
\* lastResponse changes only when a GET returns 2xx.
C28_CatchKeepsLastResponse ==
    [][InPoller =>
          /\ (pc = "awaitPoll" /\ EndedInCatch') => lastResponse' = lastResponse
          /\ lastResponse' # lastResponse => (pc = "awaitPoll" /\ lastKind' = "ok")
      ]_vars

\* C28 as it holds: an attempt whose GET is rejected leaves lastResponse
\* unchanged, lastResponse changes only when a GET returns 2xx and then
\* becomes that response's body (a null body included, although that attempt
\* ends in the catch block), and the timeout result carries lastResponse,
\* the body of the most recent 2xx response.
C28_RejectedKeepsLastResponse ==
    [][InPoller =>
          /\ (pc = "awaitPoll" /\ lastKind' # "ok") => lastResponse' = lastResponse
          /\ (pc = "awaitPoll" /\ lastKind' = "ok") => lastResponse' = last2xx'.body
          /\ lastResponse' # lastResponse => (pc = "awaitPoll" /\ lastKind' = "ok")
          /\ PollOutcome' = "TimedOut" =>
                /\ PollPayload' = lastResponse'
                /\ last2xx'.seen => PollPayload' = last2xx'.body
      ]_vars

\* A non-terminal 2xx payload, then only rejected GETs, and the timeout
\* result carries that payload.
C28_Witness ==
    /\ variant \in WhileVariants
    /\ Done /\ PollOutcome = "TimedOut"
    /\ gets >= 2
    /\ lastKind # "ok"
    /\ last2xx.seen /\ ~last2xx.body.isNull
    /\ PollPayload = last2xx.body

----------------------------------------------------------------------------
(* C29: the kind of trigger of the upload-capable script of part_000.      *)

\* The trigger POST in flight is the upload of the zip file, built without
\* reading github.context.
UploadInFlight ==
    /\ Len(inflight) = 1
    /\ inflight[1].method = "POST"
    /\ inflight[1].body.kind = "zip"
    /\ inflight[1].ref = JsNull

\* The trigger POST in flight is the build request { branch, commitSha },
\* built from github.context.
BuildInFlight ==
    /\ Len(inflight) = 1
    /\ inflight[1].method = "POST"
    /\ inflight[1].body.kind = "build"
    /\ inflight[1].ref \in Refs

\* C29: in run of the upload-capable script of part_000 exactly one kind of
\* trigger is issued per invocation: the upload POST if and only if the mode
\* input equals 'upload', the build POST for every other mode value and for
\* an absent one; never both, and in upload mode the repository context is
\* not read.
C29_ExactlyOneKindOfTrigger ==
    (variant = "p000b" /\ pc # "start") =>
        /\ posts = 1
        /\ pc = "awaitTrigger" =>
              IF mode = "upload" THEN UploadInFlight ELSE BuildInFlight

\* C29 as it holds: at most one trigger is issued, none when a required
\* input is absent or the zip file of upload mode does not exist, and
\* otherwise exactly one, of the kind the mode input selects.
C29_AtMostOneKindOfTrigger ==
    (variant = "p000b" /\ pc # "start") =>
        /\ posts = (IF AbortsBeforeTrigger THEN 0 ELSE 1)
        /\ pc = "awaitTrigger" =>
              IF mode = "upload" THEN UploadInFlight ELSE BuildInFlight

\* The build request is in flight although the mode input is given and is
\* not 'build'.
C29_Witness ==
    /\ variant = "p000b" /\ pc = "awaitTrigger"
    /\ mode = "deploy"
    /\ posts = 1 /\ BuildInFlight

============================================================================
